---- MODULE Spec2Model ----
(***************************************************************************)
(* A model of gitsy's loose-object store and reference layer.              *)
(*                                                                         *)
(* Byte strings and text strings are sequences of one-character strings;   *)
(* SP, LF and NUL are the bytes 0x20, 0x0a and 0x00.  The file system of   *)
(* the metadata directory (.git) is a record fs = [dirs, files]: dirs is   *)
(* the set of directories and files maps a file's path to its content.     *)
(* A path is the text of the path relative to the metadata directory, with *)
(* "/" between components; the empty path is the metadata directory.       *)
(***************************************************************************)
EXTENDS Integers, Sequences, FiniteSets, TLC

\* fs: the metadata directory; wt: the work tree around it; written: the kind and body
\* of every object a call has stored so far, by hash (a history variable); last: the
\* latest call with its arguments and its outcome; nops: the number of calls so far
\* that may write.
VARIABLES fs, wt, written, last, nops

vars == <<fs, wt, written, last, nops>>

(* ------------------------------ bytes ---------------------------------- *)

SP == " "
LF == "\n"
NUL == "NUL"
SLASH == "/"

\* The first two bytes of a zlib stream at the default level (0x78 0x9c).
ZLIB_HEADER == <<"x78", "x9c">>

Digits == <<"0", "1", "2", "3", "4", "5", "6", "7", "8", "9">>

HexDigits == <<"0", "1", "2", "3", "4", "5", "6", "7", "8", "9", "a", "b", "c", "d", "e", "f">>

HexChars == {HexDigits[i] : i \in 1..16}

Upper == <<"A", "B", "C", "D", "E", "F", "G", "H", "I", "J", "K", "L", "M", "N", "O", "P", "Q", "R", "S", "T", "U", "V", "W", "X", "Y", "Z">>

Lower == <<"a", "b", "c", "d", "e", "f", "g", "h", "i", "j", "k", "l", "m", "n", "o", "p", "q", "r", "s", "t", "u", "v", "w", "x", "y", "z">>

Whitespace == {SP, LF, "\t", "\r"}

\* The index (1-based) of c in the sequence t, 0 when absent.
IndexIn(t, c) == IF \E i \in 1..Len(t) : t[i] = c THEN CHOOSE i \in 1..Len(t) : t[i] = c ELSE 0

\* str.lower() / str.upper() on one character.
LowerChar(c) == IF IndexIn(Upper, c) > 0 THEN Lower[IndexIn(Upper, c)] ELSE c

UpperChar(c) == IF IndexIn(Lower, c) > 0 THEN Upper[IndexIn(Lower, c)] ELSE c

StrLower(s) == [i \in 1..Len(s) |-> LowerChar(s[i])]

StrUpper(s) == [i \in 1..Len(s) |-> UpperChar(s[i])]

\* str.strip(): drops leading and trailing whitespace.
StrStrip(s) ==
    LET keep == {i \in 1..Len(s) : s[i] \notin Whitespace}
    IN IF keep = {} THEN <<>>
       ELSE LET lo == CHOOSE i \in keep : \A j \in keep : i <= j
                hi == CHOOSE i \in keep : \A j \in keep : i >= j
            IN SubSeq(s, lo, hi)

\* s.startswith(p)
StartsWith(s, p) == Len(p) <= Len(s) /\ SubSeq(s, 1, Len(p)) = p

\* s.find(c, start): Python's 0-based index of the first c at or after start, -1 when absent.
Find(s, c, start) ==
    LET hits == {i \in (start + 1)..Len(s) : s[i] = c}
    IN IF hits = {} THEN 0 - 1 ELSE (CHOOSE i \in hits : \A j \in hits : i <= j) - 1

\* Python's index normalisation inside a slice: negative counts from the end, then clamp.
SliceIndex(s, i) ==
    LET j == IF i < 0 THEN i + Len(s) ELSE i
    IN IF j < 0 THEN 0 ELSE IF j > Len(s) THEN Len(s) ELSE j

\* s[a:b] with Python's 0-based, end-exclusive, negative-aware indices.
Slice(s, a, b) == SubSeq(s, SliceIndex(s, a) + 1, SliceIndex(s, b))

\* s[a:]
SliceFrom(s, a) == SubSeq(s, SliceIndex(s, a) + 1, Len(s))

\* str(n) for n >= 0.
RECURSIVE Decimal(_)
Decimal(n) == IF n < 10 THEN <<Digits[n + 1]>> ELSE Decimal(n \div 10) \o <<Digits[(n % 10) + 1]>>

RECURSIVE DigitsValue(_)
DigitsValue(s) == IF s = <<>> THEN 0 ELSE 10 * DigitsValue(SubSeq(s, 1, Len(s) - 1)) + (IndexIn(Digits, s[Len(s)]) - 1)

\* int(text): surrounding whitespace is ignored, one sign is allowed, then digits.
\* [ok |-> FALSE] stands for ValueError.
IntParse(text) ==
    LET t == StrStrip(text)
        signed == t # <<>> /\ t[1] \in {"+", "-"}
        body == IF signed THEN SubSeq(t, 2, Len(t)) ELSE t
    IN IF body = <<>> \/ \E i \in 1..Len(body) : IndexIn(Digits, body[i]) = 0
       THEN [ok |-> FALSE, val |-> 0]
       ELSE [ok |-> TRUE, val |-> IF signed /\ t[1] = "-" THEN 0 - DigitsValue(body) ELSE DigitsValue(body)]

\* A byte string decodes as UTF-8 unless it holds a byte that is no text (0x9c).
IsText(b) == \A i \in 1..Len(b) : b[i] # "x9c"

(* ------------------------------ results -------------------------------- *)

\* A call either returns a value or raises; err names the error kind of the raise.
Ok(v) == [ok |-> TRUE, val |-> v]

Err(kind) == [ok |-> FALSE, err |-> kind]

\* The element of a set of one element.  Only({e(x) : x \in {v}}) is e(x) for x = v,
\* a local variable: v is computed once however often e uses x.
Only(S) == CHOOSE x \in S : TRUE

(* ------------------------------- paths --------------------------------- *)

GITDIR == <<>>

OBJECTS == <<"o", "b", "j", "e", "c", "t", "s">>

REFS == <<"r", "e", "f", "s">>

HEAD == <<"H", "E", "A", "D">>

\* pathlib's a / b for a path b that is relative.
Join(a, b) == IF a = <<>> THEN b ELSE IF b = <<>> THEN a ELSE a \o <<SLASH>> \o b

\* Path.parent
Parent(p) ==
    LET cuts == {i \in 1..Len(p) : p[i] = SLASH}
    IN IF cuts = {} THEN <<>> ELSE SubSeq(p, 1, (CHOOSE i \in cuts : \A j \in cuts : i >= j) - 1)

\* Path.name: the last component.
Name(p) ==
    LET cuts == {i \in 1..Len(p) : p[i] = SLASH}
    IN IF cuts = {} THEN p ELSE SubSeq(p, (CHOOSE i \in cuts : \A j \in cuts : i >= j) + 1, Len(p))

\* The path itself and every directory above it, the metadata directory included.
RECURSIVE Ancestors(_)
Ancestors(p) == IF p = <<>> THEN {<<>>} ELSE {p} \cup Ancestors(Parent(p))

IsDir(f, p) == p \in f.dirs

IsFile(f, p) == p \in DOMAIN f.files

\* Path.exists()
Exists(f, p) == IsDir(f, p) \/ IsFile(f, p)

\* Path.iterdir(): the entries directly inside directory p.
IterDir(f, p) == {q \in (f.dirs \cup DOMAIN f.files) : q # <<>> /\ Parent(q) = p}

\* The files at or below directory p.
FilesUnder(f, p) == {q \in DOMAIN f.files : p \in Ancestors(q)}

\* Path.write_bytes / open("wb").write: creates or replaces the file's content.
WriteFile(f, p, data) ==
    [f EXCEPT !.files = [q \in (DOMAIN f.files) \cup {p} |-> IF q = p THEN data ELSE f.files[q]]]

\* Path.unlink()
Unlink(f, p) == [f EXCEPT !.files = [q \in (DOMAIN f.files) \ {p} |-> f.files[q]]]

(* ----------------------------- Repository ------------------------------ *)

\* Repository.repo_dir: [ok, fs] with the file system after the call.
RepoDir(f, dir_name, mkdir) ==
    IF mkdir /\ ~Exists(f, dir_name) /\ (\E a \in Ancestors(dir_name) : IsFile(f, a))
    THEN [ok |-> FALSE, err |-> "NotDirectory", fs |-> f]
    ELSE Only({IF ~IsDir(made, dir_name)
                            THEN [ok |-> FALSE, err |-> "NotDirectory", fs |-> made]
                            ELSE [ok |-> TRUE, val |-> dir_name, fs |-> made]
               : made \in {IF mkdir /\ ~Exists(f, dir_name) THEN [f EXCEPT !.dirs = f.dirs \cup Ancestors(dir_name)] ELSE f}})

\* Repository.repo_file: [ok, fs] with the file system after the call.
RepoFile(f, file_name, touch) ==
    IF touch /\ ~Exists(f, file_name)
    THEN Only({IF d.ok THEN [ok |-> TRUE, val |-> file_name, fs |-> WriteFile(d.fs, file_name, <<>>)] ELSE d
               : d \in {RepoDir(f, Parent(file_name), TRUE)}})
    ELSE IF ~Exists(f, file_name) THEN [ok |-> FALSE, err |-> "Missing", fs |-> f]
    ELSE [ok |-> TRUE, val |-> file_name, fs |-> f]

(* ----------------------------- object codec ---------------------------- *)

BLOB == <<"b", "l", "o", "b">>

TREE == <<"t", "r", "e", "e">>

COMMIT == <<"c", "o", "m", "m", "i", "t">>

TAG == <<"t", "a", "g">>

Kinds == {BLOB, TREE, COMMIT, TAG}

\* The byte values the digest below tells apart.
ByteTable == Digits \o Lower \o Upper \o <<SP, LF, NUL, SLASH, ":", "<", ">", "+", "-", ".", "x78", "x9c">>

\* a * b in 16 bits, by halves of a so that no product leaves 32 bits.
MulMod(a, b) == ((((a \div 256) * b) % 65536) * 256 + (a % 256) * b) % 65536

\* 31 ^ n in 16 bits.
RECURSIVE PowMod(_)
PowMod(n) == IF n = 0 THEN 1 ELSE MulMod(MulMod(PowMod(n \div 2), PowMod(n \div 2)), IF n % 2 = 1 THEN 31 ELSE 1)

\* The bytes lo..hi of b as the digits of a number in base 31, kept in 16 bits.
RECURSIVE Poly(_, _, _)
Poly(b, lo, hi) ==
    IF lo > hi THEN 0
    ELSE IF lo = hi THEN IndexIn(ByteTable, b[lo])
    ELSE (MulMod(Poly(b, lo, (lo + hi) \div 2), PowMod(hi - (lo + hi) \div 2)) + Poly(b, (lo + hi) \div 2 + 1, hi)) % 65536

\* A running digest of a byte string, kept in 16 bits: d := d * 31 + byte from d = 7.
Digest(b) == (MulMod(7, PowMod(Len(b))) + Poly(b, 1, Len(b))) % 65536

\* hashlib.sha1(raw_data).hexdigest(): SHA-1 is stood for by a deterministic map from
\* byte strings to 40 lowercase hex characters that is free of collisions on the
\* byte strings of this model (NoCollision below) while distinct digests may share
\* their leading characters, as real SHA-1 digests do.  Characters 1..4 depend on
\* two bits of the digest; characters 5..40 repeat its four nibbles.
Sha1(b) ==
    Only({[i \in 1..40 |->
                       IF i = 1 THEN (IF d % 2 = 0 THEN "a" ELSE "3")
                       ELSE IF i = 2 THEN (IF (d \div 16) % 2 = 0 THEN "b" ELSE "0")
                       ELSE IF i = 3 THEN "c"
                       ELSE IF i = 4 THEN "4"
                       ELSE HexDigits[((d \div (16 ^ ((i - 5) % 4))) % 16) + 1]]
          : d \in {Digest(b)}})

\* zlib.compress
ZlibCompress(raw) == ZLIB_HEADER \o raw

\* zlib.decompress: raises zlib.error on data that is no zlib stream.
ZlibDecompress(data) ==
    IF StartsWith(data, ZLIB_HEADER) THEN Ok(SubSeq(data, Len(ZLIB_HEADER) + 1, Len(data))) ELSE Err("ZlibError")

\* A frame whose declared length counts the NUL as well.
FrameLengthOff(type_, obj_data) == type_ \o <<SP>> \o Decimal(Len(obj_data) + 1) \o <<NUL>> \o obj_data

\* The framed bytes write_object builds: <type> SP <decimal length> NUL <data>.
Frame(type_, obj_data) == type_ \o <<SP>> \o Decimal(Len(obj_data)) \o <<NUL>> \o obj_data

\* objects/<sha[0:2]>/<sha[2:]>
ObjectPath(sha) == Join(Join(OBJECTS, Slice(sha, 0, 2)), SliceFrom(sha, 2))

\* A _parse_object that takes the body from the last NUL on instead of the first.
ParseObjectLastNul(data) ==
    Only({Only({IF ~size.ok THEN Err("ValueError")
                                        ELSE Ok([type_ |-> Slice(data, 0, at[1]), size |-> size.val,
                                                 data |-> SliceFrom(data, at[2] + 1)])
      : size \in {IntParse(Slice(data, at[1], Find(data, NUL, 0)))}})
          : at \in {<<Find(data, SP, 0), Len(data) - 1 - Find([i \in 1..Len(data) |-> data[Len(data) + 1 - i]], NUL, 0)>>}})

\* _parse_object: (type, size, data) of decompressed content, or a raise.
ParseObject(data) ==
    Only({LET space_index == at[1]
                null_index == at[2]
                obj_type == Slice(data, 0, space_index)
                obj_size == Slice(data, space_index, null_index)
                obj_data == SliceFrom(data, null_index + 1)
            IN IF ~IsText(obj_type) \/ ~IsText(obj_size) THEN Err("UnicodeDecodeError")
               ELSE Only({IF ~size.ok THEN Err("ValueError")
                                       ELSE Ok([type_ |-> obj_type, size |-> size.val, data |-> obj_data])
                          : size \in {IntParse(obj_size)}})
          : at \in {<<Find(data, SP, 0), Find(data, NUL, 0)>>}})

\* A lookup that takes every kind for the kind of an object.
GetObjectClassAny(obj_type) == Ok(obj_type)

\* _get_object_class
GetObjectClass(obj_type) == IF obj_type \in Kinds THEN Ok(obj_type) ELSE Err("InvalidKind")

\* read_object: truthiness of obj_type decides whether a type is expected (<<>> is None).
ReadObject(f, sha, obj_type) ==
    Only({IF ~RepoDir(f, OBJECTS, FALSE).ok THEN Err(RepoDir(f, OBJECTS, FALSE).err)
            ELSE IF ~Exists(f, obj_file) THEN Err("Missing")
            ELSE IF IsDir(f, obj_file) THEN Err("IsADirectoryError")
            ELSE Only({IF ~raw_data.ok THEN Err(raw_data.err)
                         ELSE Only({IF ~parsed.ok THEN Err("MalformedCannotParse")
                                      ELSE IF obj_type # <<>> /\ parsed.val.type_ # obj_type THEN Err("TypeMismatch")
                                      ELSE IF parsed.val.size # Len(parsed.val.data) THEN Err("MalformedBadLength")
                                      ELSE IF ~GetObjectClass(parsed.val.type_).ok THEN Err("InvalidKind")
                                      ELSE Ok([type_ |-> parsed.val.type_, data |-> parsed.val.data])
                                    : parsed \in {ParseObject(raw_data.val)}})
                       : raw_data \in {ZlibDecompress(f.files[obj_file])}})
          : obj_file \in {Join(Join(OBJECTS, Slice(sha, 0, 2)), SliceFrom(sha, 2))}})

\* The persisting branch of write_object: [ok, val, fs].
StoreObject(f, raw_data, sha) ==
    Only({IF ~obj_dir.ok THEN obj_dir
            ELSE Only({IF ~obj_file.ok THEN obj_file
                         ELSE IF IsDir(obj_file.fs, obj_file.val)
                              THEN [ok |-> FALSE, err |-> "IsADirectoryError", fs |-> obj_file.fs]
                              ELSE [ok |-> TRUE, val |-> sha,
                                    fs |-> WriteFile(obj_file.fs, obj_file.val, ZlibCompress(raw_data))]
                       : obj_file \in {RepoFile(obj_dir.fs, ObjectPath(sha), TRUE)}})
          : obj_dir \in {RepoDir(f, OBJECTS, FALSE)}})

\* A write_object that stores whatever the write flag says.
WriteObjectAlways(f, type_, obj_data, write) ==
    Only({StoreObject(f, raw_data, Sha1(raw_data))
          : raw_data \in {Frame(type_, obj_data)}})

\* A write that names the file after the hash of the body alone.
WriteObjectHashBody(f, type_, obj_data, write) ==
    Only({IF ~write THEN [ok |-> TRUE, val |-> sha, fs |-> f]
          ELSE StoreObject(f, Frame(type_, obj_data), sha)
          : sha \in {Sha1(obj_data)}})

\* write_object on an object of kind type_ whose write() returns obj_data:
\* [ok, val, fs] with the hash returned and the file system after the call.
WriteObject(f, type_, obj_data, write) ==
    Only({Only({IF ~write THEN [ok |-> TRUE, val |-> sha, fs |-> f]
                ELSE StoreObject(f, raw_data, sha)
                : sha \in {Sha1(raw_data)}})
          : raw_data \in {Frame(type_, obj_data)}})

(* --------------------------- name resolution --------------------------- *)

IsHex(s) == \A i \in 1..Len(s) : s[i] \in HexChars

\* re.compile(r"^[0-9a-f]{40}$").match
FullHashMatch(name) == Len(name) = 40 /\ IsHex(name)

\* A short-hash pattern that asks for five characters at least.
ShortHashMatchFive(name) == Len(name) >= 5 /\ Len(name) <= 40 /\ IsHex(name)

\* A short-hash pattern that lets three characters through.
ShortHashMatchThree(name) == Len(name) >= 3 /\ Len(name) <= 40 /\ IsHex(name)

\* re.compile(r"^[0-9a-f]{4,40}$").match
ShortHashMatch(name) == Len(name) >= 4 /\ Len(name) <= 40 /\ IsHex(name)

\* A scan of the fan-out directory that stops at the first match.
CandidatesFirstOnly(f, name) ==
    Only({IF all = {} THEN {} ELSE {CHOOSE c \in all : TRUE}
          : all \in {{Slice(name, 0, 2) \o Name(q) :
            q \in {e \in IterDir(f, Join(OBJECTS, Slice(name, 0, 2))) : StartsWith(Name(e), SliceFrom(name, 2))}}}})

\* The scan of objects/<name[0:2]>/ for the entries that begin with name[2:].  iterdir
\* gives them in no particular order, so the candidates are kept as a set.
Candidates(f, name) ==
    Only({LET prefix == part[1]
                rest == part[2]
            IN {prefix \o Name(q) : q \in {e \in IterDir(f, Join(OBJECTS, prefix)) : StartsWith(Name(e), rest)}}
          : part \in {<<Slice(name, 0, 2), SliceFrom(name, 2)>>}})

\* resolve_object_name.  An Ambiguous raise carries the candidates.
ResolveObjectName(f, raw_name) ==
    IF raw_name = <<>> THEN Err("InvalidArgument")
    ELSE Only({Only({IF FullHashMatch(name) /\ ~RepoDir(f, OBJECTS, FALSE).ok THEN Err(RepoDir(f, OBJECTS, FALSE).err)
                         ELSE IF FullHashMatch(name) /\ Exists(f, Join(prefix_dir, SliceFrom(name, 2))) THEN Ok(name)
                         ELSE IF ~ShortHashMatch(name) THEN Err("NotFound")
                         ELSE IF ~RepoDir(f, OBJECTS, FALSE).ok THEN Err(RepoDir(f, OBJECTS, FALSE).err)
                         ELSE IF ~Exists(f, prefix_dir) THEN Err("NotFound")
                         ELSE IF ~IsDir(f, prefix_dir) THEN Err("NotADirectoryError")
                         ELSE Only({IF Cardinality(candidates) = 1 THEN Ok(CHOOSE c \in candidates : TRUE)
                                      ELSE IF candidates = {} THEN Err("NotFound")
                                      ELSE [ok |-> FALSE, err |-> "Ambiguous", candidates |-> candidates]
                                    : candidates \in {Candidates(f, name)}})
      : prefix_dir \in {Join(OBJECTS, Slice(name, 0, 2))}})
               : name \in {StrLower(StrStrip(raw_name))}})

(* ------------------------------ references ----------------------------- *)

REF_PREFIX == <<"r", "e", "f", ":", SP>>

\* f.readline(): the content up to and including the first LF.
ReadLine(content) ==
    LET nl == Find(content, LF, 0)
    IN IF nl < 0 THEN content ELSE Slice(content, 0, nl + 1)

\* resolve_ref with the depth of the recursion counted down: a chain longer than the
\* number of files revisits a file and so never ends; Python then raises RecursionError.
RECURSIVE ResolveRefFrom(_, _, _)
ResolveRefFrom(f, name, fuel) ==
    IF fuel = 0 THEN Err("RecursionError")
    ELSE IF ~RepoFile(f, name, FALSE).ok THEN Err("Missing")
    ELSE IF IsDir(f, name) THEN Err("IsADirectoryError")
    ELSE IF ~IsText(f.files[name]) THEN Err("UnicodeDecodeError")
    ELSE Only({IF StartsWith(data, REF_PREFIX)
                            THEN ResolveRefFrom(f, SliceFrom(data, 5), fuel - 1)
                            ELSE Ok(data)
               : data \in {Slice(ReadLine(f.files[name]), 0, 0 - 1)}})

\* resolve_ref
ResolveRef(f, name) == ResolveRefFrom(f, name, Cardinality(DOMAIN f.files) + 1)

\* A create_ref that writes over an existing reference whatever the force flag says.
CreateRefForced(f, name, ref, sha, force) ==
    IF ~((ref # <<>> /\ sha = <<>>) \/ (sha # <<>> /\ ref = <<>>))
    THEN [ok |-> FALSE, err |-> "InvalidArgument", fs |-> f]
    ELSE Only({IF ~ref_dir.ok THEN ref_dir
               ELSE IF ~IsFile(ref_dir.fs, Join(REFS, name)) /\ Exists(ref_dir.fs, Join(REFS, name))
                    THEN [ok |-> FALSE, err |-> "IsADirectoryError", fs |-> ref_dir.fs]
               ELSE IF ~IsDir(ref_dir.fs, Parent(Join(REFS, name)))
                    THEN [ok |-> FALSE, err |-> "FileNotFoundError", fs |-> ref_dir.fs]
               ELSE [ok |-> TRUE, fs |-> WriteFile(ref_dir.fs, Join(REFS, name), IF ref # <<>> THEN REF_PREFIX \o ref ELSE sha)]
               : ref_dir \in {RepoDir(f, REFS, TRUE)}})

\* create_ref: ref and sha are <<>> when not given.  [ok, fs].
CreateRef(f, name, ref, sha, force) ==
    IF ~((ref # <<>> /\ sha = <<>>) \/ (sha # <<>> /\ ref = <<>>))
    THEN [ok |-> FALSE, err |-> "InvalidArgument", fs |-> f]
    ELSE Only({LET data == IF ref # <<>> THEN REF_PREFIX \o ref ELSE sha
                     new_ref == Join(REFS, name)
                 IN IF ~ref_dir.ok THEN ref_dir
                    ELSE IF ~force /\ Exists(ref_dir.fs, new_ref)
                         THEN [ok |-> FALSE, err |-> "AlreadyExists", fs |-> ref_dir.fs]
                    ELSE IF IsDir(ref_dir.fs, new_ref)
                         THEN [ok |-> FALSE, err |-> "IsADirectoryError", fs |-> ref_dir.fs]
                    ELSE IF ~IsDir(ref_dir.fs, Parent(new_ref))
                         THEN [ok |-> FALSE, err |-> "FileNotFoundError", fs |-> ref_dir.fs]
                    ELSE [ok |-> TRUE, fs |-> WriteFile(ref_dir.fs, new_ref, data)]
               : ref_dir \in {RepoDir(f, REFS, TRUE)}})

\* delete_ref: [ok, val, fs].
DeleteRef(f, name) ==
    Only({IF ~sha.ok THEN [ok |-> FALSE, err |-> sha.err, fs |-> f]
            ELSE Only({LET ref_file == Join(REFS, name)
                         IN IF ~ref_dir.ok THEN ref_dir
                            ELSE IF ~IsFile(ref_dir.fs, ref_file)
                                 THEN [ok |-> FALSE,
                                       err |-> IF IsDir(ref_dir.fs, ref_file) THEN "IsADirectoryError" ELSE "FileNotFoundError",
                                       fs |-> ref_dir.fs]
                            ELSE [ok |-> TRUE, val |-> sha.val, fs |-> Unlink(ref_dir.fs, ref_file)]
                       : ref_dir \in {RepoDir(f, REFS, TRUE)}})
          : sha \in {ResolveRef(f, name)}})

\* list_refs(repo): what the call does to the file system (it makes refs/ when absent).
ListRefsFs(f) == RepoDir(f, REFS, TRUE).fs

\* The characters of paths in the order of their codes.
CodeOrder == <<"-", ".", SLASH>> \o Digits \o Upper \o Lower

\* a < b for strings, as sorted(..., key=str) compares them.
StrLess(a, b) ==
    \E i \in 1..(Len(b)) :
        /\ \A j \in 1..(i - 1) : j <= Len(a) /\ a[j] = b[j]
        /\ (i > Len(a) \/ IndexIn(CodeOrder, a[i]) < IndexIn(CodeOrder, b[i]))

\* sorted(paths, key=str)
RECURSIVE Sorted(_)
Sorted(paths) ==
    IF paths = {} THEN <<>>
    ELSE Only({<<first>> \o Sorted(paths \ {first})
               : first \in {CHOOSE p \in paths : \A q \in paths \ {p} : StrLess(p, q)}})

\* str.rfind(c): Python's 0-based index of the last c, -1 when absent.
RFind(s, c) ==
    IF \E i \in 1..Len(s) : s[i] = c
    THEN (CHOOSE i \in 1..Len(s) : s[i] = c /\ \A j \in (i + 1)..Len(s) : s[j] # c) - 1
    ELSE 0 - 1

\* Path.stem: the name without its last suffix; a dot that begins or ends the name
\* starts no suffix.
Stem(name) ==
    IF 0 < RFind(name, ".") /\ RFind(name, ".") < Len(name) - 1 THEN Slice(name, 0, RFind(name, ".")) ELSE name

\* refs[key] = value on a dict, held as the sequence of its [key, value] items in the
\* order of insertion: a key that is there keeps its place and takes the new value.
SetItem(refs, key, value) ==
    IF \E i \in 1..Len(refs) : refs[i].key = key
    THEN [i \in 1..Len(refs) |-> IF refs[i].key = key THEN [key |-> key, value |-> value] ELSE refs[i]]
    ELSE Append(refs, [key |-> key, value |-> value])

\* list_refs(repo, path): the for loop over the sorted items, and the call itself.  A
\* leaf is [sha |-> the resolved value], a directory [refs |-> its own mapping].
RECURSIVE ListItems(_, _, _)
RECURSIVE ListRefsIn(_, _)
ListItems(f, items, refs) ==
    IF items = <<>> THEN Ok(refs)
    ELSE IF IsDir(f, items[1])
         THEN Only({IF ~sub.ok THEN sub
                    ELSE ListItems(f, Tail(items), SetItem(refs, Stem(Name(items[1])), [refs |-> sub.val]))
                    : sub \in {ListRefsIn(f, items[1])}})
         ELSE Only({IF ~sha.ok THEN sha
                    ELSE ListItems(f, Tail(items), SetItem(refs, Name(items[1]), [sha |-> sha.val]))
                    : sha \in {ResolveRef(f, items[1])}})

ListRefsIn(f, ref_dir) == ListItems(f, Sorted(IterDir(f, ref_dir)), <<>>)

\* list_refs(repo): the mapping it returns.
ListRefs(f) ==
    IF ~RepoDir(f, REFS, TRUE).ok THEN Err(RepoDir(f, REFS, TRUE).err)
    ELSE ListRefsIn(RepoDir(f, REFS, TRUE).fs, REFS)

(* ------------------------------ find_object ---------------------------- *)

\* The value of the first header line "<key> SP <value> LF" of a message body, which is
\* what Tag.obj_sha (key object) and Commit.tree_sha (key tree) give.
RECURSIVE HeaderValue(_, _)
HeaderValue(data, key) ==
    IF data = <<>> \/ data[1] = LF THEN Err("MissingHeader")
    ELSE Only({Only({IF StartsWith(line, key \o <<SP>>) THEN Ok(SliceFrom(line, Len(key) + 1))
                         ELSE IF nl < 0 THEN Err("MissingHeader")
                         ELSE HeaderValue(SliceFrom(data, nl + 1), key)
      : line \in {IF nl < 0 THEN data ELSE Slice(data, 0, nl)}})
               : nl \in {Find(data, LF, 0)}})

\* A find_object that returns None.
None == [ok |-> TRUE, none |-> TRUE, val |-> <<>>]

\* A loop that follows tags and commits whatever the follow flag says.
RECURSIVE FindLoopFollowAlways(_, _, _, _, _)
FindLoopFollowAlways(f, sha, obj_type, follow, fuel) ==
    IF fuel = 0 THEN Err("NoTermination")
    ELSE Only({IF ~obj.ok THEN obj
                 ELSE IF obj.val.type_ = obj_type THEN Ok(sha)
                 ELSE IF obj.val.type_ = TAG
                      THEN Only({IF next.ok THEN FindLoopFollowAlways(f, next.val, obj_type, follow, fuel - 1) ELSE next
                                 : next \in {HeaderValue(obj.val.data, <<"o", "b", "j", "e", "c", "t">>)}})
                 ELSE IF obj.val.type_ = COMMIT /\ obj_type = TREE
                      THEN Only({IF next.ok THEN FindLoopFollowAlways(f, next.val, obj_type, follow, fuel - 1) ELSE next
                                 : next \in {HeaderValue(obj.val.data, TREE)}})
                 ELSE None
               : obj \in {ReadObject(f, sha, <<>>)}})

\* The while loop of find_object, its iterations counted down: more iterations than
\* there are files revisit an object, and the loop never ends.
RECURSIVE FindLoop(_, _, _, _, _)
FindLoop(f, sha, obj_type, follow, fuel) ==
    IF fuel = 0 THEN Err("NoTermination")
    ELSE Only({IF ~obj.ok THEN obj
                 ELSE IF obj.val.type_ = obj_type THEN Ok(sha)
                 ELSE IF ~follow THEN None
                 ELSE IF obj.val.type_ = TAG
                      THEN Only({IF next.ok THEN FindLoop(f, next.val, obj_type, follow, fuel - 1) ELSE next
                                 : next \in {HeaderValue(obj.val.data, <<"o", "b", "j", "e", "c", "t">>)}})
                 ELSE IF obj.val.type_ = COMMIT /\ obj_type = TREE
                      THEN Only({IF next.ok THEN FindLoop(f, next.val, obj_type, follow, fuel - 1) ELSE next
                                 : next \in {HeaderValue(obj.val.data, TREE)}})
                 ELSE None
               : obj \in {ReadObject(f, sha, <<>>)}})

\* find_object: obj_type is <<>> when not given.
FindObject(f, name, obj_type, follow) ==
    IF StrUpper(name) = HEAD THEN ResolveRef(f, HEAD)
    ELSE Only({IF ~sha.ok THEN sha
                           ELSE IF obj_type = <<>> THEN sha
                           ELSE FindLoop(f, sha.val, obj_type, follow, Cardinality(DOMAIN f.files) + 1)
               : sha \in {ResolveObjectName(f, name)}})

\* The object hash_object builds from a file's bytes: Object subclass(repo, data).write().
\* The bytes of the file become the body of the object as they are.
ObjectWrite(type_, data) == data

\* hash_object: w is the work tree.  [ok, val, fs].
HashObject(f, w, file_name, obj_type, write) ==
    IF ~Exists(w, file_name) THEN [ok |-> FALSE, err |-> "Missing", fs |-> f]
    ELSE IF IsDir(w, file_name) THEN [ok |-> FALSE, err |-> "IsADirectoryError", fs |-> f]
    ELSE Only({IF ~obj_class.ok THEN [ok |-> FALSE, err |-> obj_class.err, fs |-> f]
                 ELSE WriteObject(f, obj_class.val, ObjectWrite(obj_class.val, w.files[file_name]), write)
               : obj_class \in {GetObjectClass(obj_type)}})

(* ------------------------------- checkout ------------------------------ *)

\* A checkout that takes a directory with entries in it for a destination.
CheckoutIntoAny(f, w, sha, path) ==
    Only({IF ~full_sha.ok THEN [ok |-> FALSE, err |-> full_sha.err, wt |-> w]
            ELSE Only({IF ~obj.ok THEN [ok |-> FALSE, err |-> obj.err, wt |-> w]
                         ELSE Only({IF ~tree.ok THEN [ok |-> FALSE, err |-> tree.err, wt |-> w]
                                      ELSE IF Exists(w, path)
                                           THEN IF ~IsDir(w, path) THEN [ok |-> FALSE, err |-> "NotDirectory", wt |-> w]
                                                ELSE [ok |-> TRUE, wt |-> w]
                                      ELSE IF \E a \in Ancestors(path) : IsFile(w, a)
                                           THEN [ok |-> FALSE, err |-> "NotDirectory", wt |-> w]
                                           ELSE [ok |-> TRUE, wt |-> [w EXCEPT !.dirs = w.dirs \cup Ancestors(path)]]
                                    : tree \in {IF obj.val.type_ # COMMIT THEN obj
                                   ELSE Only({IF tree_sha.ok THEN ReadObject(f, tree_sha.val, TREE) ELSE tree_sha
                                              : tree_sha \in {HeaderValue(obj.val.data, TREE)}})}})
                       : obj \in {ReadObject(f, full_sha.val, <<>>)}})
          : full_sha \in {ResolveObjectName(f, sha)}})

\* checkout(repo, sha, path): the destination path is relative to the work tree.
\* [ok, wt] with the work tree after the call; the metadata directory is only read.
Checkout(f, w, sha, path) ==
    Only({IF ~full_sha.ok THEN [ok |-> FALSE, err |-> full_sha.err, wt |-> w]
            ELSE Only({IF ~obj.ok THEN [ok |-> FALSE, err |-> obj.err, wt |-> w]
                         ELSE Only({IF ~tree.ok THEN [ok |-> FALSE, err |-> tree.err, wt |-> w]
                                      ELSE IF Exists(w, path)
                                           THEN IF ~IsDir(w, path) THEN [ok |-> FALSE, err |-> "NotDirectory", wt |-> w]
                                                ELSE IF IterDir(w, path) # {} THEN [ok |-> FALSE, err |-> "NotEmpty", wt |-> w]
                                                ELSE [ok |-> TRUE, wt |-> w]
                                      ELSE IF \E a \in Ancestors(path) : IsFile(w, a)
                                           THEN [ok |-> FALSE, err |-> "NotDirectory", wt |-> w]
                                           ELSE [ok |-> TRUE, wt |-> [w EXCEPT !.dirs = w.dirs \cup Ancestors(path)]]
                                    : tree \in {IF obj.val.type_ # COMMIT THEN obj
                                   ELSE Only({IF tree_sha.ok THEN ReadObject(f, tree_sha.val, TREE) ELSE tree_sha
                                              : tree_sha \in {HeaderValue(obj.val.data, TREE)}})}})
                       : obj \in {ReadObject(f, full_sha.val, <<>>)}})
          : full_sha \in {ResolveObjectName(f, sha)}})

(* ------------------------------- messages ------------------------------ *)

\* bytes.replace(old, new) for a non-empty old: left to right, without overlap.
RECURSIVE Replace(_, _, _)
Replace(s, old, new) ==
    IF Len(s) < Len(old) THEN s
    ELSE IF StartsWith(s, old) THEN new \o Replace(SliceFrom(s, Len(old)), old, new)
    ELSE <<s[1]>> \o Replace(SliceFrom(s, 1), old, new)

\* headers[key].append(value), or headers[key] = [value] for a new key: a dict keeps
\* its keys in the order they were first set.
SetHeader(headers, key, value) ==
    IF \E i \in 1..Len(headers) : headers[i].key = key
    THEN [i \in 1..Len(headers) |->
            IF headers[i].key = key THEN [key |-> key, values |-> Append(headers[i].values, value)] ELSE headers[i]]
    ELSE Append(headers, [key |-> key, values |-> <<value>>])

\* The while loop of Message._parse: the index of the LF that ends the value, the first
\* LF at or after value_start that no SP follows.  data[i] past the end is an IndexError;
\* a loop that finds no LF and goes round again never ends.
RECURSIVE ValueEnd(_, _, _)
ValueEnd(data, value_start, fuel) ==
    IF fuel = 0 THEN Err("NoTermination")
    ELSE Only({IF value_end + 1 >= Len(data) THEN Err("IndexError")
               ELSE IF data[value_end + 2] # SP THEN Ok(value_end)
               ELSE ValueEnd(data, value_end + 2, fuel - 1)
               : value_end \in {Find(data, LF, value_start)}})

\* Message._parse(data, start, headers): the headers as a sequence of [key, values] in
\* the order of the dict, and the text.
RECURSIVE MessageParseFrom(_, _, _, _)
MessageParseFrom(data, start, headers, fuel) ==
    IF fuel = 0 THEN Err("RecursionError")
    ELSE Only({IF at[1] < 0 \/ at[2] < at[1]
               THEN Ok([headers |-> headers, text |-> SliceFrom(data, start + 1)])
               ELSE Only({IF ~value_end.ok THEN value_end
                          ELSE MessageParseFrom(data, value_end.val + 1,
                                                SetHeader(headers, Slice(data, start, at[1]),
                                                          Replace(Slice(data, at[1] + 1, value_end.val), <<LF, SP>>, <<LF>>)),
                                                fuel - 1)
                          : value_end \in {ValueEnd(data, at[1] + 1, Len(data) + 1)}})
               : at \in {<<Find(data, SP, start), Find(data, LF, start)>>}})

\* Message.parse
MessageParse(data) == MessageParseFrom(data, 0, <<>>, Len(data) + 1)

\* The lines Message.write gives the values of one key.
RECURSIVE WriteValues(_, _)
WriteValues(key, values) ==
    IF values = <<>> THEN <<>>
    ELSE key \o <<SP>> \o Replace(values[1], <<LF>>, <<LF, SP>>) \o <<LF>> \o WriteValues(key, Tail(values))

\* The lines Message.write gives the headers.
RECURSIVE WriteHeaders(_)
WriteHeaders(headers) ==
    IF headers = <<>> THEN <<>>
    ELSE WriteValues(headers[1].key, headers[1].values) \o WriteHeaders(Tail(headers))

\* Message.write
MessageWrite(message) == WriteHeaders(message.headers) \o <<LF>> \o message.text \o <<LF>>

\* str(n) for any integer n.
IntStr(n) == IF n < 0 THEN <<"-">> \o Decimal(0 - n) ELSE Decimal(n)

\* MessageAuthor.write: name SP "<" email ">" SP authored_at SP timezone.
MessageAuthorWrite(author) ==
    author.name \o <<SP, "<">> \o author.email \o <<">", SP>> \o IntStr(author.authored_at) \o <<SP>> \o author.timezone

\* A MessageAuthor.parse that takes the name up to the "<", the space before it included.
MessageAuthorParseNameSpace(data) ==
    Only({IF at[1] = 0 - 1 \/ at[2] = 0 - 1 \/ at[3] = 0 - 1 THEN Err("MalformedIdentity")
          ELSE IF ~IntParse(Slice(data, at[2] + 1, at[3])).ok THEN Err("ValueError")
          ELSE Ok([name |-> Slice(data, 0, at[1]),
                   email |-> Slice(data, at[1] + 1, at[2]),
                   authored_at |-> IntParse(Slice(data, at[2] + 1, at[3])).val,
                   timezone |-> SliceFrom(data, at[3] + 1)])
          : at \in {Only({Only({<<email_start, email_end, Find(data, SP, email_end + 2)>>
                                : email_end \in {Find(data, ">", email_start + 1)}})
                          : email_start \in {Find(data, "<", 0)}})}})

\* MessageAuthor.parse: at is <<email_start, email_end, timestamp_end>>.
MessageAuthorParse(data) ==
    Only({IF at[1] = 0 - 1 \/ at[2] = 0 - 1 \/ at[3] = 0 - 1 THEN Err("MalformedIdentity")
          ELSE IF ~IntParse(Slice(data, at[2] + 1, at[3])).ok THEN Err("ValueError")
          ELSE Ok([name |-> Slice(data, 0, at[1] - 1),
                   email |-> Slice(data, at[1] + 1, at[2]),
                   authored_at |-> IntParse(Slice(data, at[2] + 1, at[3])).val,
                   timezone |-> SliceFrom(data, at[3] + 1)])
          : at \in {Only({Only({<<email_start, email_end, Find(data, SP, email_end + 2)>>
                                : email_end \in {Find(data, ">", email_start + 1)}})
                          : email_start \in {Find(data, "<", 0)}})}})

(* -------------------------------- trees -------------------------------- *)

\* Tree(repo, data): Object.__init__ keeps repo and calls deserialize(data), which
\* returns "tree" and keeps nothing of data; the object is its kind alone.
TreeDeserialize(data) == [type_ |-> TREE]

\* Tree.serialize
TreeSerialize(tree) == <<>>

(* ------------------------------ the store ------------------------------ *)

\* The hashes named by the files at objects/<2 characters>/<rest>.
StoredHashes(f) ==
    {Name(Parent(q)) \o Name(q) : q \in {r \in FilesUnder(f, OBJECTS) : Parent(Parent(r)) = OBJECTS}}

(* ------------------------------- inputs -------------------------------- *)

\* The files of the work tree: empty, text, and bytes holding NUL and SP.
Worktree ==
    (<<"a">> :> <<>>) @@ (<<"b">> :> <<"h", "i", LF>>) @@ (<<"c">> :> <<"a", NUL, SP, "1">>)

\* The bodies objects are written with.
Bodies == {Worktree[n] : n \in DOMAIN Worktree}

\* The hash of every object the model can write.
AllHashes == {Sha1(Frame(k, b)) : k \in Kinds, b \in Bodies}

(* ------------------------------- actions ------------------------------- *)

\* init_repo on an empty work tree: description, HEAD and config, and no directory
\* but the metadata directory itself.
InitFs ==
    [dirs |-> {GITDIR},
     files |-> (HEAD :> REF_PREFIX \o <<"r", "e", "f", "s", "/", "h", "e", "a", "d", "s", "/", "m", "a", "s", "t", "e", "r", LF>>)
            @@ (<<"d", "e", "s", "c", "r", "i", "p", "t", "i", "o", "n">> :>
                  <<"U", "n", "n", "a", "m", "e", "d", SP, "r", "e", "p", "o", "s", "i", "t", "o", "r", "y", ";", SP, "e", "d", "i", "t", SP, "t", "h", "i", "s", SP, "f", "i", "l", "e", SP, "'", "d", "e", "s", "c", "r", "i", "p", "t", "i", "o", "n", "'", SP, "t", "o", SP, "n", "a", "m", "e", SP, "t", "h", "e", SP, "r", "e", "p", "o", "s", "i", "t", "o", "r", "y", ".", LF>>)
            @@ (<<"c", "o", "n", "f", "i", "g">> :>
                  <<"[", "c", "o", "r", "e", "]", LF, "r", "e", "p", "o", "s", "i", "t", "o", "r", "y", "f", "o", "r", "m", "a", "t", "v", "e", "r", "s", "i", "o", "n", SP, "=", SP, "0", LF, "f", "i", "l", "e", "m", "o", "d", "e", SP, "=", SP, "f", "a", "l", "s", "e", LF, "b", "a", "r", "e", SP, "=", SP, "f", "a", "l", "s", "e", LF, LF>>)]

\* The repository init_repo returns, and around it the files the user has since put
\* in the work tree.
Init ==
    /\ fs = InitFs
    /\ wt = [dirs |-> {<<>>}, files |-> Worktree]
    /\ written = <<>>
    /\ last = [op |-> "init_repo"]
    /\ nops = 0

\* The calls that only read; the calls after one are explored from the state before it,
\* which differs from the state after it in last alone.
Queries ==
    {"read_object", "resolve_object_name", "resolve_ref", "find_object", "message_write", "author_parse",
     "tree_serialize"}

Ready == last.op \notin Queries

\* No call is under way whose result the next call is to be given.
Idle == Ready /\ last.op \notin {"message_parse", "author_write", "tree_deserialize"}

\* The history after a call that returned sha for an object (type_, data) and stored it.
Record(type_, data, r, write) ==
    IF r.ok /\ write THEN (r.val :> [type_ |-> type_, data |-> data]) @@ written ELSE written

\* repo.repo_dir(dir_name, mkdir=True)
RepoDirOp(dir_name) ==
    /\ Ready
    /\ \E r \in {RepoDir(fs, dir_name, TRUE)} :
          /\ fs' = r.fs
          /\ last' = [op |-> "repo_dir", name |-> dir_name, ok |-> r.ok]
    /\ nops' = nops + 1
    /\ UNCHANGED <<wt, written>>

\* write_object(repo, obj, write)
WriteObjectOp(type_, obj_data, write) ==
    /\ Ready
    /\ \E r \in {WriteObject(fs, type_, obj_data, write)} :
          /\ fs' = r.fs
          /\ written' = Record(type_, obj_data, r, write)
          /\ last' = [op |-> "write_object", type_ |-> type_, data |-> obj_data, write |-> write,
                      res |-> IF r.ok THEN Ok(r.val) ELSE Err(r.err)]
    /\ nops' = nops + 1
    /\ UNCHANGED wt

\* hash_object(repo, file_name, obj_type, write)
HashObjectOp(file_name, obj_type, write) ==
    /\ Ready
    /\ \E r \in {HashObject(fs, wt, file_name, obj_type, write)} :
          /\ fs' = r.fs
          /\ written' = IF r.ok THEN Record(obj_type, ObjectWrite(obj_type, wt.files[file_name]), r, write) ELSE written
          /\ last' = [op |-> "hash_object", file_name |-> file_name, type_ |-> obj_type, write |-> write,
                      res |-> IF r.ok THEN Ok(r.val) ELSE Err(r.err)]
    /\ nops' = nops + 1
    /\ UNCHANGED wt

\* read_object(repo, sha, obj_type)
ReadObjectOp(sha, obj_type) ==
    /\ Ready
    /\ last' = [op |-> "read_object", sha |-> sha, type_ |-> obj_type, res |-> ReadObject(fs, sha, obj_type)]
    /\ UNCHANGED <<fs, wt, written, nops>>

\* resolve_object_name(repo, name)
ResolveObjectNameOp(name) ==
    /\ Ready
    /\ last' = [op |-> "resolve_object_name", name |-> name, res |-> ResolveObjectName(fs, name)]
    /\ UNCHANGED <<fs, wt, written, nops>>

\* find_object(repo, name, obj_type, follow)
FindObjectOp(name, obj_type, follow) ==
    /\ Ready
    /\ last' = [op |-> "find_object", name |-> name, type_ |-> obj_type, follow |-> follow,
                res |-> FindObject(fs, name, obj_type, follow)]
    /\ UNCHANGED <<fs, wt, written, nops>>

\* resolve_ref(repo, name)
ResolveRefOp(name) ==
    /\ Ready
    /\ last' = [op |-> "resolve_ref", name |-> name, res |-> ResolveRef(fs, name)]
    /\ UNCHANGED <<fs, wt, written, nops>>

\* A reference file put in place from outside the program, as git itself or the user
\* does: repo.repo_file(path, touch=True) and then a write of the content.
PutRefOp(path, content) ==
    /\ Ready
    /\ \E r \in {RepoFile(fs, path, TRUE)} :
          /\ fs' = IF r.ok /\ IsFile(r.fs, path) THEN WriteFile(r.fs, path, content) ELSE r.fs
          /\ last' = [op |-> "put_ref", name |-> path, data |-> content, ok |-> r.ok]
    /\ nops' = nops + 1
    /\ UNCHANGED <<wt, written>>

\* create_ref(repo, name, ref, sha, force)
CreateRefOp(name, ref, sha, force) ==
    /\ Ready
    /\ \E r \in {CreateRef(fs, name, ref, sha, force)} :
          /\ fs' = r.fs
          /\ last' = [op |-> "create_ref", name |-> name, ref |-> ref, sha |-> sha, force |-> force,
                      res |-> IF r.ok THEN Ok(<<>>) ELSE Err(r.err)]
    /\ nops' = nops + 1
    /\ UNCHANGED <<wt, written>>

\* delete_ref(repo, name)
DeleteRefOp(name) ==
    /\ Ready
    /\ \E r \in {DeleteRef(fs, name)} :
          /\ fs' = r.fs
          /\ last' = [op |-> "delete_ref", name |-> name, res |-> IF r.ok THEN Ok(r.val) ELSE Err(r.err)]
    /\ nops' = nops + 1
    /\ UNCHANGED <<wt, written>>

\* list_refs(repo)
ListRefsOp ==
    /\ Ready
    /\ fs' = ListRefsFs(fs)
    /\ last' = [op |-> "list_refs", res |-> ListRefs(fs)]
    /\ nops' = nops + 1
    /\ UNCHANGED <<wt, written>>

\* An object file put in place from outside the program:
\* repo.repo_file("objects/<2 characters>/<rest>", touch=True) and then
\* write_bytes(zlib.compress(raw)).
PutObjectOp(sha, raw) ==
    /\ Ready
    /\ \E r \in {RepoFile(fs, ObjectPath(sha), TRUE)} :
          /\ fs' = IF r.ok /\ IsFile(r.fs, ObjectPath(sha)) THEN WriteFile(r.fs, ObjectPath(sha), ZlibCompress(raw)) ELSE r.fs
          /\ last' = [op |-> "put_object", sha |-> sha, data |-> raw, ok |-> r.ok]
    /\ nops' = nops + 1
    /\ UNCHANGED <<wt, written>>

\* Message.parse(data); the Message it returns is kept for the write() that follows.
MessageParseOp(data) ==
    /\ Idle
    /\ last' = [op |-> "message_parse", data |-> data, res |-> MessageParse(data)]
    /\ UNCHANGED <<fs, wt, written, nops>>

\* message.write() on the Message the last call parsed
MessageWriteOp ==
    /\ last.op = "message_parse" /\ last.res.ok
    /\ last' = [op |-> "message_write", data |-> last.data, message |-> last.res.val,
                res |-> MessageWrite(last.res.val)]
    /\ UNCHANGED <<fs, wt, written, nops>>

\* author.write()
MessageAuthorWriteOp(author) ==
    /\ Idle
    /\ last' = [op |-> "author_write", author |-> author, res |-> MessageAuthorWrite(author)]
    /\ UNCHANGED <<fs, wt, written, nops>>

\* MessageAuthor.parse(data) on the bytes the last call wrote
MessageAuthorParseOp ==
    /\ last.op = "author_write"
    /\ last' = [op |-> "author_parse", author |-> last.author, data |-> last.res,
                res |-> MessageAuthorParse(last.res)]
    /\ UNCHANGED <<fs, wt, written, nops>>

\* Tree(repo, data); the Tree is kept for the serialize() that follows.
TreeDeserializeOp(data) ==
    /\ Idle
    /\ last' = [op |-> "tree_deserialize", data |-> data, res |-> TreeDeserialize(data)]
    /\ UNCHANGED <<fs, wt, written, nops>>

\* tree.serialize() on the Tree the last call built
TreeSerializeOp ==
    /\ last.op = "tree_deserialize"
    /\ last' = [op |-> "tree_serialize", data |-> last.data, tree |-> last.res, res |-> TreeSerialize(last.res)]
    /\ UNCHANGED <<fs, wt, written, nops>>

\* checkout(repo, sha, path)
CheckoutOp(sha, path) ==
    /\ Ready
    /\ \E r \in {Checkout(fs, wt, sha, path)} :
          /\ wt' = r.wt
          /\ last' = [op |-> "checkout", name |-> sha, path |-> path, res |-> IF r.ok THEN Ok(<<>>) ELSE Err(r.err)]
    /\ nops' = nops + 1
    /\ UNCHANGED <<fs, written>>

\* The number of calls that may write in a run over the object store.
MaxStoreOps == 3

\* The object store alone: storing, hashing and loading.
NextStore ==
    \/ nops < MaxStoreOps /\ RepoDirOp(OBJECTS)
    \/ nops < MaxStoreOps /\ \E k \in Kinds, b \in Bodies, w \in BOOLEAN : WriteObjectOp(k, b, w)
    \/ nops < MaxStoreOps /\ \E n \in {<<"b">>, <<"c">>, <<"z">>}, k \in {BLOB, TAG, <<"f", "o", "o">>}, w \in BOOLEAN : HashObjectOp(n, k, w)
    \/ \E h \in AllHashes, k \in {<<>>, BLOB, COMMIT} : ReadObjectOp(h, k)

SpecStore == Init /\ [][NextStore]_vars

REFS_HEADS_MASTER == <<"r", "e", "f", "s", "/", "h", "e", "a", "d", "s", "/", "m", "a", "s", "t", "e", "r">>

\* The hash reference files are made to point at.
SomeHash == Sha1(Frame(BLOB, <<"h", "i", LF>>))

\* The names tried for a hash: every prefix, the hash with one character more, and
\* prefixes in upper case and inside whitespace.
NamesOf(h) ==
    {SubSeq(h, 1, n) : n \in 1..40}
        \cup {h \o <<"0">>, StrUpper(SubSeq(h, 1, 4)), StrUpper(h), <<SP>> \o SubSeq(h, 1, 6) \o <<LF>>}

\* Names that are no hex prefix: empty, blank, HEAD in several spellings, other text.
OtherNames ==
    {<<>>, <<SP>>, HEAD, <<"h", "e", "a", "d">>, <<SP, "H", "e", "a", "d", LF>>,
     <<"a", "b", "c", "g">>, <<"a", "b", SP, "c", "4">>}

\* The names tried in a state: those of the stored hashes, a few prefixes of every
\* hash that is not stored, and the names that are no prefix.
Names ==
    UNION {NamesOf(h) : h \in StoredHashes(fs)}
        \cup {SubSeq(h, 1, n) : h \in AllHashes, n \in {3, 4, 6, 40}}
        \cup OtherNames

\* The number of calls that may write in a run over the names.
MaxNameOps == 4

\* Name resolution over a store that fills up.
NextNames ==
    \/ nops < MaxNameOps /\ RepoDirOp(OBJECTS)
    \/ nops < MaxNameOps /\ \E k \in {BLOB, COMMIT}, b \in Bodies : WriteObjectOp(k, b, TRUE)
    \/ nops < MaxNameOps /\ PutRefOp(REFS_HEADS_MASTER, SomeHash \o <<LF>>)
    \/ \E n \in Names : ResolveObjectNameOp(n)
    \/ \E n \in OtherNames \cup {SubSeq(h, 1, 6) : h \in StoredHashes(fs)}, k \in {<<>>, BLOB} : FindObjectOp(n, k, TRUE)

SpecNames == Init /\ [][NextNames]_vars

MY_REF == <<"m", "y", "-", "r", "e", "f">>

HEADS_MASTER == <<"h", "e", "a", "d", "s", "/", "m", "a", "s", "t", "e", "r">>

\* The number of calls that may write in a run over the references.
MaxRefOps == 3

\* The contents reference files are given: a hash with and without a final LF, and
\* symbolic references with and without one.
RefContents ==
    {SomeHash, SomeHash \o <<LF>>,
     REF_PREFIX \o Join(REFS, MY_REF), REF_PREFIX \o Join(REFS, MY_REF) \o <<LF>>,
     REF_PREFIX \o REFS_HEADS_MASTER \o <<LF>>}

\* The references: written by the program and from outside it, resolved and deleted.
NextRefs ==
    \/ nops < MaxRefOps /\ \E p \in {REFS_HEADS_MASTER, Join(REFS, MY_REF)}, c \in RefContents : PutRefOp(p, c)
    \/ nops < MaxRefOps /\ \E n \in {MY_REF, HEADS_MASTER, HEAD}, force \in BOOLEAN,
                              a \in {<<<<>>, SomeHash>>, <<Join(REFS, MY_REF), <<>>>>, <<<<>>, <<>>>>, <<REFS_HEADS_MASTER, SomeHash>>} :
                                CreateRefOp(n, a[1], a[2], force)
    \/ nops < MaxRefOps /\ \E n \in {MY_REF, HEADS_MASTER, HEAD, Join(REFS, MY_REF)} : DeleteRefOp(n)
    \/ nops < MaxRefOps /\ ListRefsOp
    \/ \E n \in {HEAD, REFS_HEADS_MASTER, Join(REFS, MY_REF), MY_REF, REFS} : ResolveRefOp(n)
    \/ \E n \in {HEAD, <<"h", "e", "a", "d">>, <<"H", "e", "a", "d">>} : FindObjectOp(n, <<>>, TRUE)

SpecRefs == Init /\ [][NextRefs]_vars

\* The number of calls that may write in a run over everything.
MaxAllOps == 5

\* The path of a stored object, given as a reference name.
ObjectName == ObjectPath(SomeHash)

\* The whole program.
Next ==
    \/ nops < MaxAllOps /\ RepoDirOp(OBJECTS)
    \/ nops < MaxAllOps /\ \E k \in {BLOB, COMMIT}, b \in {<<>>, <<"h", "i", LF>>}, w \in BOOLEAN : WriteObjectOp(k, b, w)
    \/ nops < MaxAllOps /\ \E n \in {<<"a">>, <<"b">>}, w \in BOOLEAN : HashObjectOp(n, BLOB, w)
    \/ nops < MaxAllOps /\ PutRefOp(REFS_HEADS_MASTER, SomeHash \o <<LF>>)
    \/ nops < MaxAllOps /\ \E n \in {MY_REF, HEAD, ObjectName}, force \in BOOLEAN,
                              a \in {<<<<>>, SomeHash>>, <<REFS_HEADS_MASTER, <<>>>>} : CreateRefOp(n, a[1], a[2], force)
    \/ nops < MaxAllOps /\ \E n \in {MY_REF, HEAD, ObjectName} : DeleteRefOp(n)
    \/ nops < MaxAllOps /\ ListRefsOp
    \/ nops < MaxAllOps /\ \E n \in {SubSeq(SomeHash, 1, 6)}, d \in {<<"o", "u", "t">>, <<"b">>} : CheckoutOp(n, d)
    \/ \E h \in {SomeHash}, k \in {<<>>, COMMIT} : ReadObjectOp(h, k)
    \/ \E n \in {SubSeq(SomeHash, 1, 4), HEAD} : ResolveObjectNameOp(n)
    \/ \E n \in {HEAD, ObjectName} : ResolveRefOp(n)
    \/ \E n \in {SubSeq(SomeHash, 1, 6), HEAD}, k \in {<<>>, BLOB, COMMIT} : FindObjectOp(n, k, TRUE)

Spec == Init /\ [][Next]_vars

OBJECT == <<"o", "b", "j", "e", "c", "t">>

\* The body of a tag of the object obj_sha, of kind obj_type.
TagMessage(obj_sha, obj_type) ==
    OBJECT \o <<SP>> \o obj_sha \o <<LF, "t", "y", "p", "e", SP>> \o obj_type \o <<LF, LF, "v", "1", LF>>

\* The body of a commit of the tree tree_sha.
CommitMessage(tree_sha) == TREE \o <<SP>> \o tree_sha \o <<LF, LF, "m", LF>>

\* The hash write_object gives an object.
ShaOf(obj) == Sha1(Frame(obj.type_, obj.data))

TheBlob == [type_ |-> BLOB, data |-> <<"h", "i", LF>>]

TheTree == [type_ |-> TREE, data |-> <<>>]

TheCommit == [type_ |-> COMMIT, data |-> CommitMessage(ShaOf(TheTree))]

TagOfCommit == [type_ |-> TAG, data |-> TagMessage(ShaOf(TheCommit), COMMIT)]

TagOfTag == [type_ |-> TAG, data |-> TagMessage(ShaOf(TagOfCommit), TAG)]

TagOfBlob == [type_ |-> TAG, data |-> TagMessage(ShaOf(TheBlob), BLOB)]

\* The objects find_object is tried on: a blob, a tree, a commit of the tree, and tags
\* of the commit, of that tag, and of the blob.
FindObjects == {TheBlob, TheTree, TheCommit, TagOfCommit, TagOfTag, TagOfBlob}

\* The number of calls that may write in a run over find_object.
MaxFindOps == 4

\* find_object over a store of objects that name one another.
NextFind ==
    \/ nops < MaxFindOps /\ RepoDirOp(OBJECTS)
    \/ nops < MaxFindOps /\ \E obj \in FindObjects : WriteObjectOp(obj.type_, obj.data, TRUE)
    \/ \E obj \in FindObjects, k \in Kinds, follow \in BOOLEAN : FindObjectOp(ShaOf(obj), k, follow)

SpecFind == Init /\ [][NextFind]_vars

\* The content of an object file that declares n bytes and carries body.
RawObject(kind, n, body) == kind \o <<SP>> \o Decimal(n) \o <<NUL>> \o body

\* The names object files are put under.
LoadShas == {<<"d", "e", "f", "4", "5", "6">>, <<"d", "e", "a", "d">>}

LoadBodies == {<<>>, <<"a">>, <<"a", NUL>>}

\* The number of calls that may write in a run over object files put from outside.
MaxLoadOps == 2

\* read_object over object files whose declared length is right, one more or one less.
NextLoad ==
    \/ nops < MaxLoadOps /\ \E sha \in LoadShas, k \in {BLOB, COMMIT}, n \in 0..3, b \in LoadBodies :
                              PutObjectOp(sha, RawObject(k, n, b))
    \/ \E sha \in LoadShas, k \in {<<>>, BLOB, COMMIT, TREE} : ReadObjectOp(sha, k)

SpecLoad == Init /\ [][NextLoad]_vars

\* The header lines messages are made of: a tree, two parents, and a value folded over
\* two lines.
HeaderLines ==
    {<<"t", "r", "e", "e", SP, "2", "9", LF>>, <<"p", "a", "r", "e", "n", "t", SP, "2", "0", LF>>,
     <<"p", "a", "r", "e", "n", "t", SP, "3", "b", LF>>, <<"g", "p", "g", "s", "i", "g", SP, "a", LF, SP, "b", LF>>}

\* The texts of messages: empty, with and without a final LF, with a space.
Texts == {<<>>, <<"m">>, <<"m", LF>>, <<"a", SP, "b", LF>>}

\* The most header lines of a message.
MaxHeaders == 3

RECURSIVE Flatten(_)
Flatten(lines) == IF lines = <<>> THEN <<>> ELSE lines[1] \o Flatten(Tail(lines))

\* The well-formed messages: header lines, a blank line, the text.
Messages ==
    {Flatten(lines) \o <<LF>> \o text : lines \in UNION {[1..n -> HeaderLines] : n \in 0..MaxHeaders}, text \in Texts}

\* The identities: names and emails empty, plain and with spaces; seconds of one and
\* of ten digits; timezones east, west and empty.
Authors ==
    [name : {<<>>, <<"M">>, <<"M", SP, "S">>, <<SP, "M", SP>>},
     email : {<<>>, <<"m", "@", "d">>, <<"m", SP, "s", "@", "d">>},
     authored_at : {0, 7, 1567452952},
     timezone : {<<"+", "0", "0", "0", "0">>, <<"-", "0", "7", "0", "0">>, <<>>}]

\* Messages parsed and written back, identities written and parsed back.
NextMessage ==
    \/ \E data \in Messages : MessageParseOp(data)
    \/ MessageWriteOp
    \/ \E author \in Authors : MessageAuthorWriteOp(author)
    \/ MessageAuthorParseOp

SpecMessage == Init /\ [][NextMessage]_vars

\* The reference files of the listing: a branch, a tag, a tag with dots in its name,
\* tags inside directories with dots in their names, and a file heads.b next to the
\* directory heads.
ListPaths ==
    {REFS_HEADS_MASTER,
     <<"r", "e", "f", "s", "/", "t", "a", "g", "s", "/", "v", "1">>,
     <<"r", "e", "f", "s", "/", "t", "a", "g", "s", "/", "1", ".", "1", ".", "0">>,
     <<"r", "e", "f", "s", "/", "t", "a", "g", "s", "/", "v", "1", ".", "0", "/", "a">>,
     <<"r", "e", "f", "s", "/", "t", "a", "g", "s", "/", "v", "1", ".", "1", "/", "a">>,
     <<"r", "e", "f", "s", "/", "h", "e", "a", "d", "s", ".", "b">>}

\* The number of calls that may write in a run over the listing.
MaxListOps == 3

\* list_refs over reference files put in nested directories.
NextList ==
    \/ nops < MaxListOps /\ \E p \in ListPaths, c \in {SomeHash \o <<LF>>, REF_PREFIX \o REFS_HEADS_MASTER \o <<LF>>} :
                              PutRefOp(p, c)
    \/ nops < MaxListOps /\ ListRefsOp

SpecList == Init /\ [][NextList]_vars

\* The 20 bytes of a hash, each named by its two hex digits.
RawHash(sha) == [i \in 1..20 |-> sha[2 * i - 1] \o sha[2 * i]]

\* The body of a tree: for each entry <mode> SP <path> NUL <the 20 bytes of the hash>.
RECURSIVE TreeBody(_)
TreeBody(entries) ==
    IF entries = <<>> THEN <<>>
    ELSE entries[1].mode \o <<SP>> \o entries[1].path \o <<NUL>> \o RawHash(entries[1].sha) \o TreeBody(Tail(entries))

FILE_MODE == <<"1", "0", "0", "6", "4", "4">>

TREE_MODE == <<"4", "0", "0", "0", "0">>

\* A tree of one file g.
SubTree == [type_ |-> TREE, data |-> TreeBody(<<[mode |-> FILE_MODE, path |-> <<"g">>, sha |-> ShaOf(TheBlob)]>>)]

\* A tree of a file f and a directory d, the tree above.
RootTree ==
    [type_ |-> TREE,
     data |-> TreeBody(<<[mode |-> FILE_MODE, path |-> <<"f">>, sha |-> ShaOf(TheBlob)],
                         [mode |-> TREE_MODE, path |-> <<"d">>, sha |-> ShaOf(SubTree)]>>)]

\* A commit of that tree.
RootCommit == [type_ |-> COMMIT, data |-> CommitMessage(ShaOf(RootTree))]

CheckoutObjects == {TheBlob, SubTree, RootTree, RootCommit}

\* The destinations of a checkout: a path that does not exist, one below it, a file, a
\* path below that file, and the work tree itself ("."), which holds files.
Destinations == {<<"o", "u", "t">>, <<"o", "u", "t", "/", "x">>, <<"b">>, <<"b", "/", "x">>, <<>>}

\* The number of calls that may write in a run over checkout.
MaxCheckoutOps == 5

\* checkout of a tree and of a commit into a new directory and onto a file.
NextCheckout ==
    \/ nops < MaxCheckoutOps /\ RepoDirOp(OBJECTS)
    \/ nops < MaxCheckoutOps /\ \E obj \in CheckoutObjects : WriteObjectOp(obj.type_, obj.data, TRUE)
    \/ nops < MaxCheckoutOps /\ \E obj \in {RootTree, RootCommit, TheBlob}, d \in Destinations :
                                  CheckoutOp(ShaOf(obj), d)

SpecCheckout == Init /\ [][NextCheckout]_vars

\* The entries of trees: files and directories under three names, in no order.
TreeEntries ==
    [mode : {FILE_MODE, TREE_MODE}, path : {<<"a">>, <<"a", ".", "b">>, <<"z">>}, sha : {ShaOf(TheBlob), ShaOf(TheTree)}]

\* The most entries of a tree.
MaxEntries == 2

\* The well-formed tree bodies, the empty one among them.
TreeBodies == {TreeBody(entries) : entries \in UNION {[1..n -> TreeEntries] : n \in 0..MaxEntries}}

\* Trees parsed and serialized back.
NextTree ==
    \/ \E data \in TreeBodies : TreeDeserializeOp(data)
    \/ TreeSerializeOp

SpecTree == Init /\ [][NextTree]_vars

\* The contents of object files put under names that are not their hashes: tags of the
\* objects under those names, and a blob.
CycleContents == {Frame(TAG, TagMessage(sha, TAG)) : sha \in LoadShas} \cup {Frame(BLOB, <<"h", "i", LF>>)}

\* The number of calls that may write in a run over tags that name one another.
MaxCycleOps == 3

\* find_object over object files put from outside, whose tags may name one another.
NextCycle ==
    \/ nops < MaxCycleOps /\ \E sha \in LoadShas, raw \in CycleContents : PutObjectOp(sha, raw)
    \/ \E sha \in LoadShas, k \in {BLOB, COMMIT, TAG}, follow \in BOOLEAN : FindObjectOp(sha, k, follow)

SpecCycle == Init /\ [][NextCycle]_vars

\* The bytes of the inputs of the parser: a letter, SP and LF.
ParseBytes == {"k", SP, LF}

\* The longest input of the parser.
MaxLen == 5

\* Every byte string of those bytes up to that length, well-formed or not.
ByteStrings == UNION {[1..n -> ParseBytes] : n \in 0..MaxLen}

\* Message.parse over every input, and write() on what it returns.
NextParse ==
    \/ \E data \in ByteStrings : MessageParseOp(data)
    \/ MessageWriteOp

SpecParse == Init /\ [][NextParse]_vars

\* The bytes that follow the kind in the contents tried on the envelope parser.
FrameBytes == {SP, NUL, "0", "7", "x"}

\* The most bytes after the kind.
MaxTail == 3

\* Decompressed contents: the kind blob and then every string of those bytes, framed
\* well or not.
FrameContents == {BLOB \o tail : tail \in UNION {[1..n -> FrameBytes] : n \in 0..MaxTail}}

\* The number of calls that may write in a run over the envelope parser.
MaxFrameOps == 1

\* read_object over object files of every such content.
NextFrame ==
    \/ nops < MaxFrameOps /\ \E raw \in FrameContents : PutObjectOp(<<"d", "e", "a", "d">>, raw)
    \/ \E k \in {<<>>, BLOB, COMMIT} : ReadObjectOp(<<"d", "e", "a", "d">>, k)

SpecFrame == Init /\ [][NextFrame]_vars

\* Distinct framed contents of the model have distinct hashes, as with SHA-1.
NoCollision ==
    \A k1 \in Kinds, k2 \in Kinds, b1 \in Bodies, b2 \in Bodies :
        Sha1(Frame(k1, b1)) = Sha1(Frame(k2, b2)) => (k1 = k2 /\ b1 = b2)

(* ------------------------------- claims -------------------------------- *)

\* C1: store/load round trip.  A write_object that stores returns the SHA-1 of
\* <kind> SP <decimal length> NUL <body>, and read_object on a hash a write returned
\* yields the kind and the body bytes that were written (TypeMismatch when another
\* kind is asked for).
C1_RoundTrip ==
    /\ (last.op = "write_object" /\ last.write /\ last.res.ok) =>
          /\ last.res.val = Sha1(last.type_ \o <<SP>> \o Decimal(Len(last.data)) \o <<NUL>> \o last.data)
          /\ ReadObject(fs, last.res.val, <<>>) = Ok([type_ |-> last.type_, data |-> last.data])
    /\ (last.op = "read_object" /\ last.sha \in DOMAIN written) =>
          IF last.type_ # <<>> /\ last.type_ # written[last.sha].type_
          THEN last.res = Err("TypeMismatch")
          ELSE last.res = Ok(written[last.sha])

\* A read_object of a stored object whose body holds NUL and SP has returned.
C1_Witness ==
    /\ last.op = "read_object" /\ last.sha \in DOMAIN written /\ last.res.ok
    /\ last.res.val.type_ = COMMIT /\ last.res.val.data = <<"a", NUL, SP, "1">>

\* C2: store invariant.  Every file under objects/ sits at objects/<h[0..2]>/<h[2..40]>
\* for h the SHA-1 of its decompressed content, and the decimal length its envelope
\* declares is the byte length of its body.
C2_StoreInvariant ==
    \A q \in FilesUnder(fs, OBJECTS) :
        LET raw == ZlibDecompress(fs.files[q])
            h == Sha1(raw.val)
            sp == Find(raw.val, SP, 0)
            nul == Find(raw.val, NUL, 0)
        IN /\ raw.ok
           /\ q = OBJECTS \o <<SLASH>> \o SubSeq(h, 1, 2) \o <<SLASH>> \o SubSeq(h, 3, 40)
           /\ sp >= 0 /\ nul > sp
           /\ SubSeq(raw.val, sp + 2, nul) = Decimal(Len(raw.val) - (nul + 1))

\* Objects are stored, one of them by hash_object, one with a body of four bytes.
C2_Witness ==
    /\ last.op = "hash_object" /\ last.write /\ last.res.ok
    /\ Cardinality(FilesUnder(fs, OBJECTS)) >= 2
    /\ \E q \in FilesUnder(fs, OBJECTS) : Len(fs.files[q]) > 12

C4_DryRun ==
    [][(last'.op = "write_object" /\ ~last'.write) =>
          /\ fs' = fs
          /\ last'.res = Ok(Sha1(Frame(last'.type_, last'.data)))
          /\ LET stored == WriteObject(fs, last'.type_, last'.data, TRUE)
             IN stored.ok => stored.val = last'.res.val]_vars

\* A dry run has returned in a repository where storing works and an object is stored.
C4_Witness ==
    /\ last.op = "write_object" /\ ~last.write /\ last.res.ok
    /\ IsDir(fs, OBJECTS) /\ FilesUnder(fs, OBJECTS) # {}
    /\ last.res.val \notin StoredHashes(fs)

\* C5 as claimed: in the repository init_repo leaves, a write_object that persists
\* returns a hash, and read_object then loads the object.
C5_FreshRepoWrite ==
    [][(fs = InitFs /\ last'.op = "write_object" /\ last'.write) =>
          (last'.res.ok /\ ReadObject(fs', last'.res.val, <<>>).ok)]_vars

\* The stored hashes that begin with the name.
Matching(name) == {h \in StoredHashes(fs) : StartsWith(h, name)}

\* C6: unique-prefix resolution.  For a stored hash h, resolve_object_name on h, or on
\* the first n characters of h for n in 4..40 when no other stored hash begins with
\* them, returns h (the name is trimmed and lowercased first).
C6_UniquePrefix ==
    last.op = "resolve_object_name" =>
        LET name == StrLower(StrStrip(last.name))
        IN \A h \in StoredHashes(fs) :
              (Len(name) >= 4 /\ Len(name) <= 40 /\ Matching(name) = {h}) => last.res = Ok(h)

\* A prefix shorter than the hash has resolved to it while the fan-out directory
\* holds another object.
C6_Witness ==
    /\ last.op = "resolve_object_name" /\ last.res.ok
    /\ Len(last.name) \in 4..39
    /\ \E h \in StoredHashes(fs) : h # last.res.val /\ SubSeq(h, 1, 2) = SubSeq(last.name, 1, 2)

\* C7: ambiguity detection.  A hex prefix of 4..40 characters that two or more stored
\* hashes begin with makes resolve_object_name fail with Ambiguous, the candidates
\* being exactly those hashes.
C7_Ambiguous ==
    last.op = "resolve_object_name" =>
        LET name == StrLower(StrStrip(last.name))
        IN (Len(name) >= 4 /\ Len(name) <= 40 /\ Cardinality(Matching(name)) >= 2) =>
              last.res = [ok |-> FALSE, err |-> "Ambiguous", candidates |-> Matching(name)]

\* A prefix was found ambiguous between two of the three objects of a directory.
C7_Witness ==
    /\ last.op = "resolve_object_name" /\ ~last.res.ok /\ last.res.err = "Ambiguous"
    /\ Cardinality(last.res.candidates) = 2
    /\ \E h \in StoredHashes(fs) : h \notin last.res.candidates /\ SubSeq(h, 1, 2) = SubSeq(last.name, 1, 2)

\* C8 as claimed: every name that is not 4..40 hex characters after trimming and
\* lowercasing, a hex prefix shorter than 4 among them, yields NotFound.
C8_ShortRejected ==
    (last.op = "resolve_object_name" /\ ~(Len(StrLower(StrStrip(last.name))) \in 4..40 /\ IsHex(StrLower(StrStrip(last.name)))))
        => last.res = Err("NotFound")

\* C8 as amended: the same for every name that is not empty as given; the empty name
\* is refused with "No name to resolve!" (InvalidArgument) before any trimming.
C8_ShortRejectedNonEmpty ==
    (last.op = "resolve_object_name" /\ ~(Len(StrLower(StrStrip(last.name))) \in 4..40 /\ IsHex(StrLower(StrStrip(last.name)))))
        => IF last.name = <<>> THEN last.res = Err("InvalidArgument") ELSE last.res = Err("NotFound")

\* A three-character prefix that exactly one stored hash begins with was rejected.
C8_Witness ==
    /\ last.op = "resolve_object_name" /\ Len(last.name) = 3 /\ IsHex(last.name)
    /\ Cardinality(Matching(last.name)) = 1
    /\ last.res = Err("NotFound")

\* C9 as claimed: resolve_object_name on HEAD, in any letter case and inside any
\* whitespace, returns what resolve_ref(repo, "HEAD") returns.
C9_HeadResolves ==
    (last.op = "resolve_object_name" /\ StrUpper(StrStrip(last.name)) = HEAD)
        => last.res = ResolveRef(fs, HEAD)

\* The path a symbolic reference of this content names: what follows "ref: ", without
\* the final LF when there is one.
SymbolicTarget(content) ==
    LET line == ReadLine(content)
    IN SliceFrom(IF line # <<>> /\ line[Len(line)] = LF THEN Slice(line, 0, 0 - 1) ELSE line, 5)

\* C10 as claimed: resolve_ref strips a final LF and nothing else.  A reference file
\* holding a 40-hex hash, with or without a final LF, resolves to that hash, and one
\* holding "ref: <path>" resolves to what <path> resolves to.
C10_ResolveRef ==
    (last.op = "resolve_ref" /\ IsFile(fs, last.name)) =>
        LET content == fs.files[last.name]
        IN /\ \A h \in AllHashes : content \in {h, h \o <<LF>>} => last.res = Ok(h)
           /\ StartsWith(content, REF_PREFIX) =>
                 (ResolveRef(fs, SymbolicTarget(content)).ok => last.res = ResolveRef(fs, SymbolicTarget(content)))

\* C11 as claimed: a create_ref that succeeds leaves at refs/<name> a file without a
\* final LF; resolve_ref on that file returns the hash given for a direct reference,
\* and what resolve_ref on the path given returns for a symbolic one.
C11_CreateResolve ==
    (last.op = "create_ref" /\ last.res.ok) =>
        /\ IsFile(fs, Join(REFS, last.name))
        /\ fs.files[Join(REFS, last.name)] = (IF last.ref # <<>> THEN REF_PREFIX \o last.ref ELSE last.sha)
        /\ last.sha # <<>> => ResolveRef(fs, Join(REFS, last.name)) = Ok(last.sha)
        /\ last.ref # <<>> => ResolveRef(fs, Join(REFS, last.name)) = ResolveRef(fs, last.ref)

\* C12: create_ref with exactly one of ref and sha, on a name whose reference file
\* exists: without force it fails with AlreadyExists and no file changes; with force it
\* succeeds and the file holds the encoding of the new target, "ref: <path>" or the hash.
C12_NoSilentOverwrite ==
    [][(last'.op = "create_ref" /\ (last'.ref = <<>>) # (last'.sha = <<>>) /\ IsFile(fs, Join(REFS, last'.name))) =>
           IF last'.force
           THEN /\ last'.res.ok
                /\ fs' = WriteFile(fs, Join(REFS, last'.name), IF last'.ref # <<>> THEN REF_PREFIX \o last'.ref ELSE last'.sha)
           ELSE last'.res = Err("AlreadyExists") /\ fs' = fs]_vars

\* A create_ref without force was refused on a reference that holds something other
\* than the encoding of the target it was given.
C12_Witness ==
    /\ last.op = "create_ref" /\ ~last.force /\ last.res = Err("AlreadyExists")
    /\ IsFile(fs, Join(REFS, last.name))
    /\ fs.files[Join(REFS, last.name)] # (IF last.ref # <<>> THEN REF_PREFIX \o last.ref ELSE last.sha)

\* C13 as claimed: delete_ref(repo, name) on a reference file refs/<name> that resolves
\* (the file create_ref(repo, name, ...) writes) returns what that file resolved to and
\* removes that file and nothing else; and whenever delete_ref returns, the file it
\* resolved is gone and every other file is as it was.
C13_DeleteRef ==
    [][last'.op = "delete_ref" =>
          /\ (IsFile(fs, Join(REFS, last'.name)) /\ ResolveRef(fs, Join(REFS, last'.name)).ok) =>
                /\ last'.res = ResolveRef(fs, Join(REFS, last'.name))
                /\ fs' = Unlink(fs, Join(REFS, last'.name))
          /\ last'.res.ok =>
                \E file \in DOMAIN fs.files :
                    /\ ResolveRef(fs, file) = last'.res
                    /\ fs'.files = [q \in DOMAIN fs.files \ {file} |-> fs.files[q]]]_vars

\* C14 as claimed: whenever find_object is given an expected kind and returns a hash,
\* the object stored under that hash has that kind.
C14_FindKind ==
    (last.op = "find_object" /\ last.type_ # <<>> /\ last.res.ok /\ "none" \notin DOMAIN last.res) =>
        /\ ReadObject(fs, last.res.val, <<>>).ok
        /\ ReadObject(fs, last.res.val, <<>>).val.type_ = last.type_

\* What each tag names in its object header, and the commit in its tree header.
FindTarget ==
    (ShaOf(TagOfCommit) :> ShaOf(TheCommit)) @@ (ShaOf(TagOfTag) :> ShaOf(TagOfCommit))
        @@ (ShaOf(TagOfBlob) :> ShaOf(TheBlob)) @@ (ShaOf(TheCommit) :> ShaOf(TheTree))

\* C15: find_object on the hash of a stored object with an expected kind: the hash when
\* the kinds agree; otherwise nothing when follow is false; otherwise what find_object
\* gives for the object a tag names, or for the tree of a commit when a tree is expected
\* (an error when that object is not stored); otherwise nothing.  For the tag of a stored commit and expected kind commit it gives
\* the commit with follow and nothing without.
C15_Follow ==
    (last.op = "find_object" /\ last.type_ # <<>>) =>
        /\ \A obj \in FindObjects :
              (last.name = ShaOf(obj) /\ ShaOf(obj) \in StoredHashes(fs)) =>
                  IF obj.type_ = last.type_ THEN last.res = Ok(last.name)
                  ELSE IF ~last.follow THEN last.res = None
                  ELSE IF obj.type_ = TAG \/ (obj.type_ = COMMIT /\ last.type_ = TREE)
                       THEN IF FindTarget[last.name] \in StoredHashes(fs)
                            THEN last.res = FindObject(fs, FindTarget[last.name], last.type_, TRUE)
                            ELSE ~last.res.ok
                  ELSE last.res = None
        /\ (last.name = ShaOf(TagOfCommit) /\ last.type_ = COMMIT /\ {ShaOf(TagOfCommit), ShaOf(TheCommit)} \subseteq StoredHashes(fs)) =>
              last.res = (IF last.follow THEN Ok(ShaOf(TheCommit)) ELSE None)

\* A tag of a tag of a commit was followed to the commit.
C15_Witness ==
    /\ last.op = "find_object" /\ last.name = ShaOf(TagOfTag) /\ last.type_ = COMMIT /\ last.follow
    /\ last.res = Ok(ShaOf(TheCommit))

\* C18 as claimed: read_object on an object file that declares a length other than the
\* number of bytes of its body fails with Malformed:bad-length, whatever kind is
\* expected and whether one is expected or not.
C18_BadLength ==
    (last.op = "read_object" /\ IsFile(fs, ObjectPath(last.sha))) =>
        \A k \in {BLOB, COMMIT}, n \in 0..4, b \in LoadBodies :
            (fs.files[ObjectPath(last.sha)] = ZlibCompress(RawObject(k, n, b)) /\ n # Len(b))
                => last.res = Err("MalformedBadLength")

\* C16 as claimed: a well-formed message that is parsed and written back is the message
\* it was, byte for byte.
C16_MessageRoundTrip ==
    last.op = "message_write" => last.res = last.data

\* C17: an identity that is written and parsed back is the identity it was: name,
\* email, seconds and timezone, for names and emails with spaces in them.
C17_IdentityRoundTrip ==
    last.op = "author_parse" =>
        /\ last.data = last.author.name \o <<SP, "<">> \o last.author.email \o <<">", SP>>
                          \o IntStr(last.author.authored_at) \o <<SP>> \o last.author.timezone
        /\ last.res = Ok(last.author)

\* An identity whose name and email hold spaces came back as it was.
C17_Witness ==
    /\ last.op = "author_parse" /\ last.res = Ok(last.author)
    /\ SP \in {last.author.name[i] : i \in 1..Len(last.author.name)}
    /\ SP \in {last.author.email[i] : i \in 1..Len(last.author.email)}
    /\ last.author.authored_at = 1567452952

\* The names of the directories and the file of a path, from the metadata directory down.
RECURSIVE Components(_)
Components(p) == IF p = <<>> THEN <<>> ELSE Append(Components(Parent(p)), Name(p))

\* The key paths of the leaves of a listing.
RECURSIVE LeafPaths(_)
LeafPaths(node) ==
    IF "sha" \in DOMAIN node THEN {<<>>}
    ELSE UNION {{<<node.refs[i].key>> \o q : q \in LeafPaths(node.refs[i].value)} : i \in 1..Len(node.refs)}

\* What a listing holds at a key path, as a sequence of one node, or of none.
RECURSIVE Lookup(_, _)
Lookup(node, keys) ==
    IF keys = <<>> THEN <<node>>
    ELSE IF "refs" \in DOMAIN node /\ \E i \in 1..Len(node.refs) : node.refs[i].key = keys[1]
         THEN Lookup(node.refs[CHOOSE i \in 1..Len(node.refs) : node.refs[i].key = keys[1]].value, Tail(keys))
    ELSE <<>>

\* C19 as claimed: the mapping list_refs returns has one leaf for every reference file
\* under refs/ and no other, at the key path of the full names of the directories around
\* the file and then the name of the file, holding what resolve_ref gives for the file.
C19_ListRefs ==
    (last.op = "list_refs" /\ last.res.ok) =>
        /\ LeafPaths([refs |-> last.res.val]) = {Tail(Components(p)) : p \in FilesUnder(fs, REFS)}
        /\ \A p \in FilesUnder(fs, REFS) :
              Lookup([refs |-> last.res.val], Tail(Components(p))) = <<[sha |-> ResolveRef(fs, p).val]>>

\* C20 as claimed: after a checkout of the tree of f and d/g, or of its commit, has
\* succeeded with every object of the tree in the store, the destination holds the file
\* f and, inside the directory d, the file g, each with the bytes of its blob.
C20_Materialize ==
    (/\ last.op = "checkout" /\ last.res.ok
     /\ last.name \in {ShaOf(RootTree), ShaOf(RootCommit)}
     /\ {ShaOf(RootTree), ShaOf(SubTree), ShaOf(TheBlob)} \subseteq StoredHashes(fs)) =>
        /\ IsFile(wt, Join(last.path, <<"f">>)) /\ wt.files[Join(last.path, <<"f">>)] = TheBlob.data
        /\ IsDir(wt, Join(last.path, <<"d">>))
        /\ IsFile(wt, Join(Join(last.path, <<"d">>), <<"g">>))
        /\ wt.files[Join(Join(last.path, <<"d">>), <<"g">>)] = TheBlob.data

\* The name is the hash of a stored object that checkout can load: a tree, a blob, or a
\* commit whose tree is stored too.
Loads(name) ==
    /\ name \in StoredHashes(fs)
    /\ name = ShaOf(RootCommit) => ShaOf(RootTree) \in StoredHashes(fs)

\* C21: a checkout of an object that loads fails with NotDirectory when the destination
\* exists and is no directory, and with NotEmpty when it is a directory that holds an
\* entry, and in both cases leaves the work tree as it was; a destination that does not
\* exist (below directories, or below nothing yet) is created and nothing else changes.
C21_Destination ==
    [][(last'.op = "checkout" /\ Loads(last'.name)) =>
          /\ (Exists(wt, last'.path) /\ ~IsDir(wt, last'.path)) =>
                (last'.res = Err("NotDirectory") /\ wt' = wt)
          /\ (IsDir(wt, last'.path) /\ IterDir(wt, last'.path) # {}) =>
                (last'.res = Err("NotEmpty") /\ wt' = wt)
          /\ (~Exists(wt, last'.path) /\ \A a \in Ancestors(last'.path) : ~IsFile(wt, a)) =>
                /\ last'.res.ok
                /\ IsDir(wt', last'.path)
                /\ wt'.files = wt.files
                /\ wt'.dirs = wt.dirs \cup Ancestors(last'.path)
          /\ fs' = fs]_vars

\* A checkout of a stored tree into a directory that holds an entry was refused, after
\* an earlier checkout had made that directory.
C21_Witness ==
    /\ last.op = "checkout" /\ last.name = ShaOf(RootTree) /\ Loads(last.name)
    /\ last.path = <<"o", "u", "t">> /\ IsDir(wt, <<"o", "u", "t", "/", "x">>)
    /\ last.res = Err("NotEmpty")

\* C22: hash_object on a file of the work tree with a kind that is none of blob, tree,
\* commit and tag fails with InvalidKind, and on a file that does not exist with
\* Missing; in both cases, with or without persisting, the metadata directory is left
\* as it was.
C22_HashObjectErrors ==
    [][last'.op = "hash_object" =>
          /\ (IsFile(wt, last'.file_name) /\ last'.type_ \notin {BLOB, TREE, COMMIT, TAG}) =>
                (last'.res = Err("InvalidKind") /\ fs' = fs)
          /\ ~Exists(wt, last'.file_name) =>
                (last'.res = Err("Missing") /\ fs' = fs)]_vars

\* A hash_object that was to persist a file under the kind foo was refused, in a
\* repository where persisting works and the store holds an object.
C22_Witness ==
    /\ last.op = "hash_object" /\ last.write /\ last.type_ = <<"f", "o", "o">>
    /\ IsFile(wt, last.file_name)
    /\ last.res = Err("InvalidKind")
    /\ StoredHashes(fs) # {}

\* C23 as claimed: a well-formed tree body that is parsed into a Tree and serialized
\* back is the body it was, byte for byte, its entries in the order they had.
C23_TreeRoundTrip ==
    last.op = "tree_serialize" => last.res = last.data

\* Where the chain of references from a file ends, by the rule of the claim: the value of
\* the first direct reference, Missing at a path that is no file, RefCycle at a file the
\* chain has been through before.
RECURSIVE ChainEnd(_, _)
ChainEnd(name, seen) ==
    IF ~IsFile(fs, name) THEN Err("Missing")
    ELSE IF name \in seen THEN Err("RefCycle")
    ELSE IF StartsWith(fs.files[name], REF_PREFIX) THEN ChainEnd(SymbolicTarget(fs.files[name]), seen \cup {name})
    ELSE Ok(Slice(ReadLine(fs.files[name]), 0, 0 - 1))

\* Every reference file ends its line with LF, as git writes it.
LinesEnded == \A p \in DOMAIN fs.files : p = HEAD \/ REFS \in Ancestors(p) => fs.files[p][Len(fs.files[p])] = LF

\* C24 as claimed: over reference files that end with LF, resolve_ref on a path that is
\* no directory returns the value of the direct reference its chain ends in, fails with
\* Missing when the chain ends at a path that is no file, and fails with RefCycle when
\* the chain comes back to a file it has been through.
C24_ResolveRefEnds ==
    (last.op = "resolve_ref" /\ LinesEnded /\ ~IsDir(fs, last.name)) => last.res = ChainEnd(last.name, {})

\* C25 as claimed: find_object returns or fails on every store: when the tags it
\* follows name one another in a circle it stops with an error, and its loop does not go
\* round for ever.
C25_FindTerminates ==
    last.op = "find_object" => (last.res.ok \/ last.res.err # "NoTermination")

\* C26 as claimed: Message.parse returns a Message for every byte string: it raises
\* nothing, and neither its loop nor its recursion goes on without end.
C26_ParseTotal ==
    last.op = "message_parse" => last.res.ok

\* C27 as claimed: the header lines that write() emits for a parsed message are the header
\* lines of the input, in the order they had there, also when lines of another key stand
\* between two lines of one key.
C27_HeaderOrder ==
    last.op = "message_write" =>
        SubSeq(last.res, 1, Len(last.res) - Len(last.message.text) - 2)
            = SubSeq(last.data, 1, Len(last.data) - Len(last.message.text) - 1)

\* A string of decimal digits, one at least.
IsDecimal(s) == s # <<>> /\ \A i \in 1..Len(s) : IndexIn(Digits, s[i]) > 0

\* The framing of a content is malformed: it has no SP, or no NUL after its first SP, or
\* the bytes between the two are no decimal number.
MalformedFraming(raw) ==
    \/ Find(raw, SP, 0) < 0
    \/ Find(raw, NUL, Find(raw, SP, 0) + 1) < 0
    \/ ~IsDecimal(Slice(raw, Find(raw, SP, 0) + 1, Find(raw, NUL, Find(raw, SP, 0) + 1)))

\* C28 as claimed: read_object on an object file whose decompressed content has
\* malformed framing fails with Malformed:cannot-parse, whatever kind is expected.
C28_CannotParse ==
    (last.op = "read_object" /\ IsFile(fs, ObjectPath(last.sha))) =>
        \A raw \in FrameContents :
            (fs.files[ObjectPath(last.sha)] = ZlibCompress(raw) /\ MalformedFraming(raw))
                => last.res = Err("MalformedCannotParse")

\* The key paths of the leaves of a listing in the order of insertion, depth first: the
\* items of a dict one after another, those of a nested dict in the place of its item.
RECURSIVE LeafSeq(_, _)
LeafSeq(refs, prefix) ==
    IF refs = <<>> THEN <<>>
    ELSE (IF "sha" \in DOMAIN refs[1].value THEN <<Join(prefix, refs[1].key)>>
          ELSE LeafSeq(refs[1].value.refs, Join(prefix, refs[1].key)))
         \o LeafSeq(Tail(refs), prefix)

\* C29 as claimed: the leaves of the mapping list_refs returns, taken in the order of
\* insertion, depth first, each as the path of its keys below refs, are in strictly
\* increasing order as strings.
C29_ListOrder ==
    (last.op = "list_refs" /\ last.res.ok) =>
        \A i \in 1..(Len(LeafSeq(last.res.val, REFS)) - 1) :
            StrLess(LeafSeq(last.res.val, REFS)[i], LeafSeq(last.res.val, REFS)[i + 1])

\* C30 as claimed: a call of resolve_ref, resolve_object_name, find_object, read_object
\* or list_refs, whether it returns or fails, leaves every file and directory of the
\* metadata directory, and of the work tree, as it was.
C30_ReadOnly ==
    [][last'.op \in {"resolve_ref", "resolve_object_name", "find_object", "read_object", "list_refs"} =>
          (fs' = fs /\ wt' = wt)]_vars

====
